---- MODULE Spec2Model ----
(***************************************************************************)
(* Model of cmd/main.go: the csv search pipeline of handleSSearch.         *)
(*                                                                         *)
(* Three kinds of processes:                                               *)
(*   - the read loop of handleSSearch (program counter mpc),               *)
(*   - the writer goroutine enqueueRecW (program counter spc),             *)
(*   - one goroutine per RecW, running RecW.Run (tasks[i].pc).             *)
(* The unbuffered channels tx, done and errc are rendezvous: a send and    *)
(* its receive are one joint step.  sem is a buffered channel of capacity  *)
(* maxcc, modelled by the number of elements it holds.                     *)
(***************************************************************************)
EXTENDS Integers, Sequences, FiniteSets, TLC

\* ---------------------------------------------------------------- bounds
MaxRecs == 1        \* longest input drawn from all combinations of Records
ExtraRecs == 1      \* the long input has maxcc + ExtraRecs records

\* ------------------------------------------------------ program constants
maxcc == 10
keyPrefix == "dic"

\* ------------------------------------------------------------ value sets
Nil == "<nil>"                  \* redis.Nil / absent value / nil error
NoErr == Nil
Records == { <<"cat", "dog">>, <<"dog">> }
ShortRec == <<"dog">>
MixedInput == << <<"cat", "dog">>, <<"dog">>, <<"cat", "dog">> >>
ScenarioInput == << <<"cat", "1">>, <<"dog", "2">>, <<"bird", "3">> >>
Cols == {0, 1}
Keys == {"cat", "dog", "bird"}
Links == {"L0", "L1", "L2"}
ItemLists == { <<"L1">>, <<"L1", "L2">> }   \* Link fields of non-empty results

\* what a call of SearchImages may do: return an error, return no item,
\* return items, or not return before the deadline of its context
Failing == [kind |-> "err", items |-> <<>>]
Empty == [kind |-> "ok", items |-> <<>>]
Found(items) == [kind |-> "ok", items |-> items]
Hanging == [kind |-> "hang", items |-> <<>>]
Answers == {Failing, Empty, Hanging} \cup { Found(items) : items \in ItemLists }

makeKey(k) == <<keyPrefix, k>>

NsKeys == { makeKey(k) : k \in Keys }

RECURSIVE SeqsUpTo(_, _)
SeqsUpTo(S, n) ==
    IF n = 0 THEN { <<>> }
    ELSE LET shorter == SeqsUpTo(S, n - 1)
         IN  shorter \cup { Append(s, x) : s \in shorter, x \in S }

ShortInputs == SeqsUpTo(Records, MaxRecs)
LongInput == [i \in 1..(maxcc + ExtraRecs) |-> ShortRec]

EmptyCache == [k \in NsKeys |-> Nil]

\* lookup clients: one that may answer anything, one that never answers,
\* and the one of the scenario of the specification
AnyClient == [k \in Keys |-> Answers]
HangClient == [k \in Keys |-> {Hanging}]
ScenarioClient ==
    [k \in Keys |-> IF k = "cat" THEN {Found(<<"L1">>)}
                    ELSE IF k = "dog" THEN {Found(<<"L2">>)}
                    ELSE {Failing}]
InitCaches == { EmptyCache, [EmptyCache EXCEPT ![makeKey("dog")] = "L0"] }

VARIABLES
    input,      \* the records the csv reader will deliver, in order
    c,          \* the key column (flag -c), 0-based as in the code
    cacheOn,    \* cache != nil
    cache,      \* contents of the redis store, by namespaced key
    cancelled,  \* ctx is done
    mpc,        \* handleSSearch: position of the read loop
    next,       \* number of records read so far
    fill,       \* i of the final loop that fills sem
    loopExit,   \* why the read loop ended
    sem,        \* len(sem)
    txClosed,   \* close(tx) has run
    spc,        \* enqueueRecW: position
    cur,        \* enqueueRecW: index of recw
    tasks,      \* the RecW objects and their goroutines
    out,        \* records written and flushed to stdout
    wfail,      \* history: w.Write has failed
    faults,     \* history: a cache call has failed
    gsc,        \* the lookup client: the answers it may give for each key
    brk         \* history: the tasks in flight when csvr.Read failed

vars == << input, c, cacheOn, cache, cancelled, mpc, next, fill, loopExit,
           sem, txClosed, spc, cur, tasks, out, wfail, faults, gsc, brk >>

Idx == 1..Len(input)

NewTask == [ pc |-> "none", rec |-> <<>>, err |-> NoErr, got |-> "none",
             items |-> <<>>, calls |-> 0, doneAtStart |-> {},
             deadline |-> "none", sigs |-> 0 ]

RecWOf(rec) == [ NewTask EXCEPT !.pc = "created", !.rec = rec ]

\* r.rec[r.c]
KeyOf(t) == t.rec[c + 1]

\* elements of sem put there by goroutines that have not yet received from it
Holders == { i \in Idx : tasks[i].pc \in {"start", "get", "search", "set", "signal", "release"} }
\* tasks whose Run has started and whose goroutine still holds its slot
Running == { i \in Idx : tasks[i].pc \in {"get", "search", "set", "signal", "release"} }
\* tasks whose goroutine has been started and has not yet sent on done
InFlight == { i \in Idx : tasks[i].pc \in {"start", "get", "search", "set", "signal"} }
Finished == { i \in Idx : tasks[i].pc \in {"release", "exit"} }

\* every input of at most MaxRecs records, with and without a cache
ShortConfig ==
    /\ input \in ShortInputs
    /\ c \in Cols
    /\ \/ cacheOn = FALSE /\ cache = EmptyCache
       \/ cacheOn = TRUE /\ cache \in InitCaches
    /\ gsc = AnyClient

\* a valid, a malformed (for c = 1) and again a valid record
MixedConfig ==
    /\ input = MixedInput
    /\ c \in Cols
    /\ cacheOn = TRUE /\ cache = EmptyCache
    /\ gsc = AnyClient

\* a lookup client that never answers
HangConfig ==
    /\ input \in ShortInputs
    /\ c = 0
    /\ cacheOn = FALSE /\ cache = EmptyCache
    /\ gsc = HangClient

\* the scenario of the specification
ScenarioConfig ==
    /\ input = ScenarioInput
    /\ c = 0
    /\ cacheOn = FALSE /\ cache = EmptyCache
    /\ gsc = ScenarioClient

\* more records than sem has slots
LargeConfig ==
    /\ input = LongInput
    /\ c = 1
    /\ cacheOn = FALSE /\ cache = EmptyCache
    /\ gsc = AnyClient

\* the state after the first lines of handleSSearch, up to go enqueueRecW
Start ==
    /\ cancelled = FALSE
    /\ mpc = "select"
    /\ next = 0
    /\ fill = 0
    /\ loopExit = "none"
    /\ sem = 0
    /\ txClosed = FALSE
    /\ spc = "recv"
    /\ cur = 0
    /\ tasks = [i \in Idx |-> NewTask]
    /\ out = <<>>
    /\ wfail = FALSE
    /\ faults = FALSE
    /\ brk = {}

Init == (ShortConfig \/ MixedConfig \/ HangConfig \/ ScenarioConfig) /\ Start

InitLarge == (LargeConfig \/ ScenarioConfig) /\ Start

InitFair == ((MixedConfig /\ c = 1) \/ HangConfig \/ ScenarioConfig) /\ Start

\* ------------------------------------------------------------------ main
\* the signal goroutine of main: cancel()
Cancel ==
    /\ ~cancelled
    /\ cancelled' = TRUE
    /\ UNCHANGED << gsc, brk, input, c, cacheOn, cache, mpc, next, fill, loopExit, sem,
                    txClosed, spc, cur, tasks, out, wfail, faults >>

Break(why) ==
    /\ mpc' = "fill"
    /\ loopExit' = why
    /\ fill' = 0
    /\ brk' = IF why = "readerr" THEN InFlight ELSE {}

\* select: case <-ctx.Done()
SelectCtx ==
    /\ mpc = "select"
    /\ cancelled
    /\ Break("ctx")
    /\ UNCHANGED << gsc, input, c, cacheOn, cache, cancelled, next, sem, txClosed,
                    spc, cur, tasks, out, wfail, faults >>

\* select: case err := <-errc, together with the send in enqueueRecW and
\* its return
SelectErr ==
    /\ mpc = "select"
    /\ spc = "senderr"
    /\ Break("errc")
    /\ spc' = "failed"
    /\ UNCHANGED << gsc, input, c, cacheOn, cache, cancelled, next, sem, txClosed,
                    cur, tasks, out, wfail, faults >>

\* mutant: the select has no case for ctx.Done()
SelectDefaultNoCtx ==
    /\ mpc = "select"
    /\ spc # "senderr"
    /\ mpc' = "read"
    /\ UNCHANGED << gsc, brk, input, c, cacheOn, cache, cancelled, next, fill, loopExit,
                    sem, txClosed, spc, cur, tasks, out, wfail, faults >>

\* select: default, taken only when no other case is ready
SelectDefault ==
    /\ mpc = "select"
    /\ ~cancelled
    /\ spc # "senderr"
    /\ mpc' = "read"
    /\ UNCHANGED << gsc, brk, input, c, cacheOn, cache, cancelled, next, fill, loopExit,
                    sem, txClosed, spc, cur, tasks, out, wfail, faults >>

\* mutant: the record is not sent on tx before its goroutine is started
ReadRecNoPush ==
    /\ mpc = "read"
    /\ next < Len(input)
    /\ next' = next + 1
    /\ tasks' = [tasks EXCEPT ![next + 1] = RecWOf(input[next + 1])]
    /\ mpc' = "acquire"
    /\ UNCHANGED << gsc, brk, input, c, cacheOn, cache, cancelled, fill, loopExit, sem,
                    txClosed, spc, cur, out, wfail, faults >>

\* csvr.Read() returns a record; rw := &RecW{...}
ReadRec ==
    /\ mpc = "read"
    /\ next < Len(input)
    /\ next' = next + 1
    /\ tasks' = [tasks EXCEPT ![next + 1] = RecWOf(input[next + 1])]
    /\ mpc' = "push"
    /\ UNCHANGED << gsc, brk, input, c, cacheOn, cache, cancelled, fill, loopExit, sem,
                    txClosed, spc, cur, out, wfail, faults >>

\* csvr.Read() returns io.EOF
ReadEOF ==
    /\ mpc = "read"
    /\ next = Len(input)
    /\ Break("eof")
    /\ UNCHANGED << gsc, input, c, cacheOn, cache, cancelled, next, sem, txClosed,
                    spc, cur, tasks, out, wfail, faults >>

\* mutant: the error is logged and the loop goes on
ReadErrContinue ==
    /\ mpc = "read"
    /\ mpc' = "select"
    /\ loopExit' = "readerr"
    /\ brk' = InFlight
    /\ UNCHANGED << gsc, input, c, cacheOn, cache, cancelled, next, fill, sem, txClosed,
                    spc, cur, tasks, out, wfail, faults >>

\* csvr.Read() returns another error
ReadErr ==
    /\ mpc = "read"
    /\ Break("readerr")
    /\ UNCHANGED << gsc, input, c, cacheOn, cache, cancelled, next, sem, txClosed,
                    spc, cur, tasks, out, wfail, faults >>

\* tx <- rw, received by "for recw := range rx"
PushRecv ==
    /\ mpc = "push"
    /\ spc = "recv"
    /\ mpc' = "acquire"
    /\ spc' = "wait"
    /\ cur' = next
    /\ UNCHANGED << gsc, brk, input, c, cacheOn, cache, cancelled, next, fill, loopExit,
                    sem, txClosed, tasks, out, wfail, faults >>

\* mutant: the goroutine is started without waiting for a free slot
LaunchUnbounded ==
    /\ mpc = "acquire"
    /\ sem' = IF sem < maxcc THEN sem + 1 ELSE sem
    /\ tasks' = [tasks EXCEPT ![next].pc = "start"]
    /\ mpc' = "select"
    /\ UNCHANGED << gsc, brk, input, c, cacheOn, cache, cancelled, next, fill, loopExit,
                    txClosed, spc, cur, out, wfail, faults >>

\* sem <- struct{}{} ; go func(rw *RecW) {...}(rw)
Launch ==
    /\ mpc = "acquire"
    /\ sem < maxcc
    /\ sem' = sem + 1
    /\ tasks' = [tasks EXCEPT ![next].pc = "start"]
    /\ mpc' = "select"
    /\ UNCHANGED << gsc, brk, input, c, cacheOn, cache, cancelled, next, fill, loopExit,
                    txClosed, spc, cur, out, wfail, faults >>

\* for i := 0; i < cap(sem); i++ { sem <- struct{}{} }: the sends that do
\* not block, up to the one that does (or to the end of the loop)
Fill ==
    /\ mpc = "fill"
    /\ fill < maxcc
    /\ sem < maxcc
    /\ sem' = maxcc
    /\ fill' = fill + (maxcc - sem)
    /\ UNCHANGED << gsc, brk, input, c, cacheOn, cache, cancelled, mpc, next, loopExit,
                    txClosed, spc, cur, tasks, out, wfail, faults >>

\* mutant: the loop that fills sem is missing
ReturnEarly ==
    /\ mpc = "fill"
    /\ mpc' = "returned"
    /\ txClosed' = TRUE
    /\ UNCHANGED << gsc, brk, input, c, cacheOn, cache, cancelled, next, fill, loopExit,
                    sem, spc, cur, tasks, out, wfail, faults >>

\* handleSSearch returns: the deferred close(tx) and r.Close() run.  main
\* then returns and the process ends; until it has, the goroutines may run on
Return ==
    /\ mpc = "fill"
    /\ fill = maxcc
    /\ mpc' = "returned"
    /\ txClosed' = TRUE
    /\ UNCHANGED << gsc, brk, input, c, cacheOn, cache, cancelled, next, fill, loopExit,
                    sem, spc, cur, tasks, out, wfail, faults >>

\* ------------------------------------------------------------- RecW.Run
\* mutant: Run is given a context without a deadline
NoDeadline == "none"

\* _ctx, cancel := context.WithTimeout(context.Background(), time.Second*5)
NewDeadline == "armed"

\* mutant: the record gets an empty field, as when there are no results
ColumnErrorAppend(t) == [t EXCEPT !.pc = "signal", !.err = "column", !.rec = Append(@, "")]

\* mutant: the function returns before the deferred send is set up
ColumnErrorNoSignal(t) == [t EXCEPT !.pc = "release", !.err = "column"]

\* r.err = fmt.Errorf("tried to access column ..."); return
ColumnError(t) == [t EXCEPT !.pc = "signal", !.err = "column"]

\* the goroutine is scheduled: the deadline is created and Run checks the column
RunStart(i) ==
    /\ tasks[i].pc = "start"
    /\ tasks' = [tasks EXCEPT ![i] =
          IF c >= Len(@.rec)
          THEN ColumnError([@ EXCEPT !.deadline = NewDeadline, !.doneAtStart = Finished])
          ELSE [@ EXCEPT !.pc = "get", !.deadline = NewDeadline, !.doneAtStart = Finished]]
    /\ UNCHANGED << gsc, brk, input, c, cacheOn, cache, cancelled, mpc, next, fill,
                    loopExit, sem, txClosed, spc, cur, out, wfail, faults >>

\* the three results of r.get(k) that lead to the lookup
GetMiss(t) == [t EXCEPT !.pc = "search", !.got = "miss", !.calls = @ + 1]
GetFail(t) == [t EXCEPT !.pc = "search", !.got = "error", !.calls = @ + 1]
\* mutant: the return after the append is missing
GetHitNoReturn(t, val) ==
    [t EXCEPT !.pc = "search", !.got = "hit", !.rec = Append(@, val), !.calls = @ + 1]

\* link, ok := r.get(k); if ok { r.rec = append(r.rec, link); return }
GetHit(t, val) == [t EXCEPT !.pc = "signal", !.got = "hit", !.rec = Append(@, val)]

\* link, ok := r.get(k), up to the call of SearchImages
CacheGet(i) ==
    /\ tasks[i].pc = "get"
    /\ LET t == tasks[i]
           val == cache[makeKey(KeyOf(t))]
       IN  \/ /\ ~cacheOn
              /\ tasks' = [tasks EXCEPT ![i] = GetMiss(t)]
              /\ UNCHANGED faults
           \/ /\ cacheOn
              /\ val = Nil
              /\ tasks' = [tasks EXCEPT ![i] = GetMiss(t)]
              /\ UNCHANGED faults
           \/ /\ cacheOn
              /\ val # Nil
              /\ tasks' = [tasks EXCEPT ![i] = GetHit(t, val)]
              /\ UNCHANGED faults
           \/ /\ cacheOn
              /\ tasks' = [tasks EXCEPT ![i] = GetFail(t)]
              /\ faults' = TRUE
    /\ UNCHANGED << gsc, brk, input, c, cacheOn, cache, cancelled, mpc, next, fill,
                    loopExit, sem, txClosed, spc, cur, out, wfail >>

\* the deadline of _ctx passes while SearchImages is in progress (a deadline
\* that passes earlier makes the call fail as soon as it is made)
Expire(i) ==
    /\ tasks[i].pc = "search"
    /\ tasks[i].deadline = "armed"
    /\ tasks' = [tasks EXCEPT ![i].deadline = "expired"]
    /\ UNCHANGED << gsc, brk, input, c, cacheOn, cache, cancelled, mpc, next, fill,
                    loopExit, sem, txClosed, spc, cur, out, wfail, faults >>

\* the outcomes of items, err := r.gsc.SearchImages(ctx, k, r.opts...)
\* mutant: a failed lookup gives the record an empty field and no error
SearchFailSentinel(t) == [t EXCEPT !.pc = "signal", !.rec = Append(@, "")]

\* if err != nil { r.err = err; return }
SearchFail(t) == [t EXCEPT !.pc = "signal", !.err = "lookup"]

\* mutant: r.err is not set when there are no results
SearchEmptyNoErr(t) == [t EXCEPT !.pc = "signal", !.rec = Append(@, "")]

\* if len(items) == 0 { r.err = ...; r.rec = append(r.rec, ""); return }
SearchEmpty(t) == [t EXCEPT !.pc = "signal", !.err = "no results", !.rec = Append(@, "")]

\* link := items[0].Link follows
SearchFound(t, items) == [t EXCEPT !.pc = "set", !.items = items]

\* SearchImages returns: with the error of the context once the deadline has
\* passed, and with one of the answers of the client before
SearchReturn(i) ==
    /\ tasks[i].pc = "search"
    /\ \/ /\ tasks[i].deadline = "expired"
          /\ tasks' = [tasks EXCEPT ![i] = SearchFail(@)]
       \/ /\ tasks[i].deadline # "expired"
          /\ \E a \in gsc[KeyOf(tasks[i])] :
                \/ /\ a.kind = "err"
                   /\ tasks' = [tasks EXCEPT ![i] = SearchFail(@)]
                \/ /\ a.kind = "ok"
                   /\ a.items = <<>>
                   /\ tasks' = [tasks EXCEPT ![i] = SearchEmpty(@)]
                \/ /\ a.kind = "ok"
                   /\ a.items # <<>>
                   /\ tasks' = [tasks EXCEPT ![i] = SearchFound(@, a.items)]
    /\ UNCHANGED << gsc, brk, input, c, cacheOn, cache, cancelled, mpc, next, fill,
                    loopExit, sem, txClosed, spc, cur, out, wfail, faults >>

\* mutant: the last result instead of the first
LastLink(items) == items[Len(items)]

\* items[0].Link
FirstLink(items) == items[1]

\* link = items[0].Link; r.set(k, link); r.rec = append(r.rec, items[0].Link)
CacheSet(i) ==
    /\ tasks[i].pc = "set"
    /\ LET t == tasks[i]
           link == FirstLink(t.items)
       IN  /\ \/ /\ ~cacheOn
                 /\ UNCHANGED << cache, faults >>
              \/ /\ cacheOn
                 /\ cache' = [cache EXCEPT ![makeKey(KeyOf(t))] = link]
                 /\ UNCHANGED faults
              \/ /\ cacheOn
                 /\ faults' = TRUE
                 /\ UNCHANGED cache
           /\ tasks' = [tasks EXCEPT ![i] =
                 [@ EXCEPT !.pc = "signal", !.rec = Append(@, link)]]
    /\ UNCHANGED << gsc, brk, input, c, cacheOn, cancelled, mpc, next, fill,
                    loopExit, sem, txClosed, spc, cur, out, wfail >>

\* the deferred r.done <- true, received by recw.Wait() in enqueueRecW
Signal(i) ==
    /\ tasks[i].pc = "signal"
    /\ spc = "wait"
    /\ cur = i
    /\ tasks' = [tasks EXCEPT ![i].pc = "release", ![i].sigs = @ + 1]
    /\ spc' = "got"
    /\ UNCHANGED << gsc, brk, input, c, cacheOn, cache, cancelled, mpc, next, fill,
                    loopExit, sem, txClosed, cur, out, wfail, faults >>

\* the goroutine has ended: only the fields of the RecW remain
Gone(t) == [ NewTask EXCEPT !.pc = "exit", !.rec = t.rec, !.err = t.err, !.sigs = t.sigs ]

\* mutant: the goroutine ends without receiving from sem
ReleaseNoSem(i) ==
    /\ tasks[i].pc = "release"
    /\ tasks' = [tasks EXCEPT ![i] = Gone(@)]
    /\ UNCHANGED << gsc, brk, input, c, cacheOn, cache, cancelled, mpc, next, fill,
                    loopExit, sem, txClosed, spc, cur, out, wfail, faults >>

\* the deferred <-sem of the goroutine
Release(i) ==
    /\ tasks[i].pc = "release"
    /\ sem > 0
    /\ sem' = sem - 1
    /\ tasks' = [tasks EXCEPT ![i] = Gone(@)]
    /\ UNCHANGED << gsc, brk, input, c, cacheOn, cache, cancelled, mpc, next, fill,
                    loopExit, txClosed, spc, cur, out, wfail, faults >>

\* ---------------------------------------------------------- enqueueRecW
\* mutant: a failed write is logged and the loop goes on
OnWriteErrorContinue == "recv"

\* what the loop does after a failed w.Write: errc <- ...; return
OnWriteError == "senderr"

\* mutant: the error of a task is reported on errc like a failed write
OnTaskErrorFatal == "senderr"

\* what the loop does with a task whose err is set: log and continue
OnTaskError == "recv"

\* mutant: the record is put in front of what was written before
EmitFirst(o, i, rec) == << [idx |-> i, rec |-> rec] >> \o o

\* w.Write(recw.rec); w.Flush()
Emit(o, i, rec) == Append(o, [idx |-> i, rec |-> rec])

\* the body of the loop after recw.Wait()
SeqEmit ==
    /\ spc = "got"
    /\ \/ /\ tasks[cur].err # NoErr
          /\ spc' = OnTaskError
          /\ UNCHANGED << out, wfail >>
       \/ /\ tasks[cur].err = NoErr
          /\ out' = Emit(out, cur, tasks[cur].rec)
          /\ spc' = "recv"
          /\ UNCHANGED wfail
       \/ /\ tasks[cur].err = NoErr
          /\ wfail' = TRUE
          /\ spc' = OnWriteError
          /\ UNCHANGED out
    /\ UNCHANGED << gsc, brk, input, c, cacheOn, cache, cancelled, mpc, next, fill,
                    loopExit, sem, txClosed, cur, tasks, faults >>

\* range rx ends because tx is closed
SeqFinish ==
    /\ spc = "recv"
    /\ txClosed
    /\ spc' = "finished"
    /\ UNCHANGED << gsc, brk, input, c, cacheOn, cache, cancelled, mpc, next, fill,
                    loopExit, sem, txClosed, cur, tasks, out, wfail, faults >>

Next ==
    \/ Cancel
    \/ SelectCtx
    \/ SelectErr
    \/ SelectDefault
    \/ ReadRec
    \/ ReadEOF
    \/ ReadErr
    \/ PushRecv
    \/ Launch
    \/ Fill
    \/ Return
    \/ \E i \in Idx : RunStart(i)
    \/ \E i \in Idx : CacheGet(i)
    \/ \E i \in Idx : Expire(i)
    \/ \E i \in Idx : SearchReturn(i)
    \/ \E i \in Idx : CacheSet(i)
    \/ \E i \in Idx : Signal(i)
    \/ \E i \in Idx : Release(i)
    \/ SeqEmit
    \/ SeqFinish

Spec == Init /\ [][Next]_vars

\* the same program on the input that fills sem
SpecLarge == InitLarge /\ [][Next]_vars

\* Scheduling: a goroutine that can take a step eventually takes it, a call
\* of the reader, the cache, the writer or the lookup client eventually
\* returns (the lookup at the latest when its deadline passes), and a timer
\* that is armed eventually fires.  Nothing is assumed of cancel(), and
\* nothing of enqueueRecW once handleSSearch has returned.
FairLen == IF MaxRecs > 3 THEN MaxRecs ELSE 3

Fairness ==
    /\ WF_vars(SelectCtx \/ SelectErr \/ SelectDefault)
    /\ WF_vars(ReadRec \/ ReadEOF \/ ReadErr)
    /\ WF_vars(PushRecv)
    /\ WF_vars(Launch)
    /\ WF_vars(Fill)
    /\ WF_vars(Return)
    /\ WF_vars(mpc # "returned" /\ SeqEmit)
    /\ \A i \in 1..FairLen :
          /\ WF_vars(i \in Idx /\ RunStart(i))
          /\ WF_vars(i \in Idx /\ CacheGet(i))
          /\ WF_vars(i \in Idx /\ Expire(i))
          /\ WF_vars(i \in Idx /\ SearchReturn(i))
          /\ WF_vars(i \in Idx /\ CacheSet(i))
          /\ WF_vars(i \in Idx /\ Signal(i))
          /\ WF_vars(i \in Idx /\ Release(i))

FairSpec == InitFair /\ [][Next]_vars /\ Fairness

\* ------------------------------------------------------------ properties
OutIdx == { out[a].idx : a \in 1..Len(out) }

\* the key of record i of the input, when the record has column c
HasKey(i) == c < Len(input[i])
InputKey(i) == input[i][c + 1]

\* tasks whose SearchImages call is in progress
Searching == { i \in Idx : tasks[i].pc = "search" }

\* the read loop stands at a send that cannot proceed
MainBlocked ==
    \/ mpc = "push" /\ spc # "recv"
    \/ mpc = "acquire" /\ sem = maxcc

\* the tasks enqueueRecW has dealt with completely
Handled == IF spc \in {"wait", "got"} THEN 1..(cur - 1) ELSE 1..cur

\* this step sends a record on tx / starts the goroutine of a record
PushStep == mpc = "push" /\ mpc' = "acquire"
LaunchStep == mpc = "acquire" /\ mpc' = "select"

TypeOK ==
    /\ sem \in 0..maxcc
    /\ fill \in 0..maxcc
    /\ next \in 0..Len(input)
    /\ cur \in 0..next
    /\ sem = Cardinality(Holders) + fill

\* the lookups never overlap: a record is received from tx only after the
\* task before it has signalled
LookupsSerialized == Cardinality(Searching) <= 1

\* C1: the records written to the output are in the order in which they were
\* read: a record read later is never written before one read earlier.
C1_OrderPreserved ==
    \A a, b \in 1..Len(out) : a < b => out[a].idx < out[b].idx

C1_Witness == Len(out) >= 2

\* C2: the number of tasks whose Run has started and whose goroutine has not
\* yet released its slot never exceeds maxcc.
C2_BoundedConcurrency == Cardinality(Running) <= maxcc

C2_Witness == Cardinality(Running) = maxcc /\ mpc = "acquire"

\* C3: the read loop is blocked from admitting the next record only when
\* maxcc tasks are in flight.
C3_SoleBackpressure == MainBlocked => Cardinality(Holders) = maxcc

\* C4 as stated: whenever the cache is configured and holds an entry for the
\* key of a task, the step that leaves r.get ends Run without a lookup, with
\* the cached value appended, no error and the cache unchanged.
C4_EntryShortCircuits ==
    [][\A i \in Idx :
         ( /\ tasks[i].pc = "get"
           /\ tasks'[i].pc # "get"
           /\ cacheOn
           /\ cache[makeKey(InputKey(i))] # Nil )
         => /\ tasks'[i].pc = "signal"
            /\ tasks'[i].calls = 0
            /\ tasks'[i].err = NoErr
            /\ tasks'[i].rec = Append(input[i], cache[makeKey(InputKey(i))])
            /\ cache' = cache]_vars

\* C4 amended: the same, whenever in addition the read of the cache does not
\* fail; and a task that had a cache hit never calls the lookup client and
\* never has an error.
C4_HitShortCircuits ==
    /\ [][\A i \in Idx :
            ( /\ tasks[i].pc = "get"
              /\ tasks'[i].pc # "get"
              /\ cacheOn
              /\ cache[makeKey(InputKey(i))] # Nil
              /\ tasks'[i].got # "error" )
            => /\ tasks'[i].got = "hit"
               /\ tasks'[i].pc = "signal"
               /\ tasks'[i].calls = 0
               /\ tasks'[i].err = NoErr
               /\ tasks'[i].rec = Append(input[i], cache[makeKey(InputKey(i))])
               /\ cache' = cache]_vars
    /\ [](\A i \in Idx :
            tasks[i].got = "hit"
            => /\ cacheOn
               /\ tasks[i].pc \in {"signal", "release"}
               /\ tasks[i].calls = 0
               /\ tasks[i].err = NoErr
               /\ Len(tasks[i].rec) = Len(input[i]) + 1)

C4_Witness ==
    \E i \in Idx : tasks[i].got = "hit" /\ tasks[i].pc = "release"

\* C5: with a working cache (no cache call has failed), a task whose lookup
\* found results has written the link of the first result under its key by
\* the time it signals; a task for the same key that starts after an
\* error-free task has signalled hits the cache and makes no lookup; and the
\* cache changes only by such a write, never by a task whose lookup failed or
\* found nothing.
C5_CachePopulation ==
    /\ [](\A i \in Idx :
            ( /\ cacheOn /\ ~faults
              /\ tasks[i].pc \in {"signal", "release"}
              /\ tasks[i].got = "miss"
              /\ tasks[i].items # <<>> )
            => cache[makeKey(InputKey(i))] = tasks[i].items[1])
    /\ [](\A j \in Idx :
            ( /\ cacheOn /\ ~faults
              /\ HasKey(j)
              /\ tasks[j].pc \in {"search", "set", "signal", "release"}
              /\ \E i \in tasks[j].doneAtStart :
                    /\ HasKey(i)
                    /\ InputKey(i) = InputKey(j)
                    /\ tasks[i].err = NoErr )
            => tasks[j].got = "hit" /\ tasks[j].calls = 0)
    /\ [](\A i \in Idx : tasks[i].err # NoErr => tasks[i].pc # "set")
    /\ [][\A i \in Idx :
            (tasks[i].pc = "search" /\ tasks'[i].err # NoErr) => cache' = cache]_vars
    /\ [][cache' # cache =>
            \E i \in Idx :
               /\ tasks[i].pc = "set"
               /\ tasks[i].err = NoErr
               /\ tasks[i].items # <<>>
               /\ cache' = [cache EXCEPT ![makeKey(InputKey(i))] = tasks[i].items[1]]]_vars

C5_Witness ==
    /\ cacheOn /\ ~faults
    /\ \E j \in Idx :
          /\ tasks[j].got = "hit"
          /\ tasks[j].rec[Len(tasks[j].rec)] = "L1"
          /\ \E i \in tasks[j].doneAtStart : HasKey(i) /\ InputKey(i) = InputKey(j)

C7_WriteFailureStopsAdmission ==
    [][wfail =>
         /\ out' = out
         /\ \A i \in Idx :
               /\ tasks[i].pc \in {"none", "created"} => tasks'[i].pc \in {"none", "created"}
               /\ tasks[i].pc = "start" => tasks'[i].pc = "start"]_vars

C7_Witness == wfail /\ mpc = "push" /\ tasks[next].pc = "created"

\* C8: the writer is never left sending on errc while the read loop is
\* blocked sending on tx or has returned.
C8_WriteErrorReceived ==
    ~(spc = "senderr" /\ mpc \in {"push", "returned"})

\* C9 as stated: once ctx is done, no record is sent on tx and no goroutine
\* is started.
C9_NoAdmissionAfterCancel ==
    [][cancelled => ~PushStep /\ ~LaunchStep]_vars

\* C9 amended: once ctx is done and the read loop is at (or past) the select
\* at the top of the loop, it reads no record, sends none on tx and starts
\* no goroutine any more; only the iteration under way is completed.
C9_NoAdmissionAfterSelect ==
    [][(cancelled /\ mpc \in {"select", "fill", "returned"})
         => /\ mpc' \in {"select", "fill", "returned"}
            /\ next' = next
            /\ ~PushStep /\ ~LaunchStep
            /\ \A i \in Idx :
                  tasks[i].pc \in {"none", "created"} => tasks'[i].pc = tasks[i].pc]_vars

C9_Witness ==
    cancelled /\ loopExit = "ctx" /\ mpc = "returned" /\ next < Len(input)

\* C10: when handleSSearch returns after a cancellation, every record it read
\* has had its goroutine started, and every one of them has signalled to the
\* writer and released its slot; cancel() itself changes no task.
C10_DrainOnCancel ==
    /\ []((mpc = "returned" /\ loopExit = "ctx")
            => /\ \A i \in 1..next : tasks[i].pc = "exit"
               /\ Holders = {}
               /\ cur = next
               /\ spc # "wait")
    /\ [][cancelled' # cancelled => tasks' = tasks]_vars

C10_Witness ==
    /\ mpc = "returned" /\ loopExit = "ctx"
    /\ next >= 2
    /\ Len(out) >= 1

\* the records of the output, without their indices
OutRecs == [a \in 1..Len(out) |-> out[a].rec]

\* the client never answers a lookup for the key of record i
NeverAnswers(i) == HasKey(i) /\ gsc[InputKey(i)] = {Hanging}

\* C11: handleSSearch does not return, after end of input or cancellation
\* and without a failed write, while a record whose task ended without error
\* is not in the output.
C11_NothingLostAtReturn ==
    (mpc = "returned" /\ loopExit \in {"eof", "ctx"} /\ ~wfail)
    => /\ \A i \in 1..next : tasks[i].err = NoErr => i \in OutIdx
       /\ ~(spc = "got" /\ tasks[cur].err = NoErr)

\* the run of the scenario: the whole input is read, the lookups of cat and
\* of dog return their results, and no write fails
ScenarioRun ==
    /\ gsc = ScenarioClient
    /\ loopExit = "eof"
    /\ ~wfail
    /\ tasks[1].err = NoErr /\ tasks[2].err = NoErr

\* C12 as stated: in the scenario the output at the end of the run is the
\* three records, the last with an empty trailing field.
C12_ThreeRecords ==
    (ScenarioRun /\ mpc = "returned")
    => OutRecs = << <<"cat", "1", "L1">>, <<"dog", "2", "L2">>, <<"bird", "3", "">> >>

\* C12 amended: in the scenario the output at the end of the run is the cat
\* record with L1 and the dog record with L2, in this order; the bird record
\* has its error set, no field appended, and is not written.
C12_TwoRecords ==
    (ScenarioRun /\ mpc = "returned")
    => /\ OutRecs = << <<"cat", "1", "L1">>, <<"dog", "2", "L2">> >>
       /\ tasks[3].err # NoErr
       /\ tasks[3].rec = <<"bird", "3">>

C12_Witness ==
    ScenarioRun /\ mpc = "returned" /\ Len(out) = 2

\* C13: every goroutine gets its own armed deadline when it starts; a lookup
\* that the client never answers ends only once that deadline has passed, and
\* then with an error and no field appended; and every started goroutine
\* eventually has signalled and released its slot.
C13_TimeoutEnforced ==
    /\ [][\A i \in Idx :
            (tasks[i].pc = "start" /\ tasks'[i].pc # "start")
            => tasks'[i].deadline = "armed"]_vars
    /\ [][\A i \in Idx :
            (tasks[i].pc = "search" /\ tasks'[i].pc # "search" /\ NeverAnswers(i))
            => /\ tasks[i].deadline = "expired"
               /\ tasks'[i].err # NoErr
               /\ tasks'[i].rec = input[i]]_vars
    /\ \A i \in 1..FairLen :
          (i \in Idx /\ tasks[i].pc = "start") ~> (i \in Idx /\ tasks[i].pc = "exit")

C13_Witness ==
    \E i \in Idx : NeverAnswers(i) /\ tasks[i].pc = "exit" /\ tasks[i].err # NoErr

\* C14: a task whose goroutine has been started (and so any task that holds
\* a slot or runs) has been received from tx by enqueueRecW before.
C14_PushBeforeLaunch ==
    \A i \in Idx : tasks[i].pc \notin {"none", "created"} => i <= cur

C14_Witness ==
    \E i \in Idx : tasks[i].pc = "search" /\ cur = i /\ spc = "wait"

\* C15: rec and err of a task change only in the steps of its own Run, before
\* it has sent on done (after its construction); enqueueRecW looks at a task
\* only after it has received from its done; and a task has sent on done
\* exactly once when its goroutine is past Run, and never before.
C15_ExclusiveOwnership ==
    /\ [][\A i \in Idx :
            (tasks'[i].rec # tasks[i].rec \/ tasks'[i].err # tasks[i].err)
            => \/ tasks[i].pc = "none" /\ tasks'[i].pc = "created"
               \/ tasks[i].pc \in {"start", "get", "search", "set"} /\ tasks[i].sigs = 0]_vars
    /\ [](spc \in {"got", "senderr", "failed"} => tasks[cur].sigs = 1)
    /\ [](\A i \in Idx :
            tasks[i].sigs = IF tasks[i].pc \in {"release", "exit"} THEN 1 ELSE 0)

C15_Witness ==
    \E i, j \in Idx :
       /\ tasks[i].pc = "exit" /\ tasks[i].err = "column" /\ tasks[i].sigs = 1
       /\ tasks[j].pc = "exit" /\ tasks[j].err = NoErr /\ tasks[j].sigs = 1

\* C16: every record in the output is the record of a task without error:
\* the input record followed by exactly one field, a link; and a field is
\* appended to the record of a task without error only as the value read
\* from the cache or as the link of the first result of its lookup.
C16_NoFalseSuccess ==
    /\ [](\A a \in 1..Len(out) :
            LET i == out[a].idx
                r == out[a].rec
            IN  /\ tasks[i].err = NoErr
                /\ r = tasks[i].rec
                /\ Len(r) = Len(input[i]) + 1
                /\ SubSeq(r, 1, Len(input[i])) = input[i]
                /\ r[Len(r)] \in Links)
    /\ [][\A i \in Idx :
            (tasks[i].pc # "none" /\ tasks'[i].rec # tasks[i].rec /\ tasks'[i].err = NoErr)
            => \/ /\ tasks[i].pc = "get"
                  /\ tasks'[i].rec = Append(input[i], cache[makeKey(InputKey(i))])
               \/ /\ tasks[i].pc = "set"
                  /\ tasks'[i].rec = Append(input[i], tasks[i].items[1])]_vars

C16_Witness ==
    /\ Len(out) >= 1
    /\ \E i \in Handled : tasks[i].err = "no results" /\ i \notin OutIdx

\* C17: a task whose record has no column c ends Run with its error set,
\* its record unchanged and no call of the cache or of the lookup client;
\* enqueueRecW then goes on to the next record.
C17_MalformedRecord ==
    /\ [](\A i \in Idx :
            (~HasKey(i) /\ tasks[i].pc \notin {"none", "created", "start"})
            => /\ tasks[i].pc \in {"signal", "release", "exit"}
               /\ tasks[i].err = "column"
               /\ tasks[i].rec = input[i]
               /\ tasks[i].calls = 0
               /\ tasks[i].got = "none")
    /\ [][(spc = "got" /\ ~HasKey(cur) /\ spc' # "got")
            => spc' = "recv" /\ out' = out /\ mpc' = mpc]_vars

C17_Witness ==
    \E i, j \in Idx :
       /\ i < j
       /\ ~HasKey(i) /\ tasks[i].pc = "exit"
       /\ tasks[j].pc = "exit" /\ j \in OutIdx

C19_Termination ==
    /\ <>(wfail \/ mpc = "returned")
    /\ [](mpc = "returned"
            => /\ sem = maxcc /\ fill = maxcc
               /\ Holders = {}
               /\ \A i \in 1..next : tasks[i].pc = "exit" /\ tasks[i].sigs = 1)

C19_Witness ==
    mpc = "returned" /\ loopExit = "eof" /\ next = Len(input) /\ next >= 3 /\ ~wfail
====
